---- MODULE Spec2Model ----
(***************************************************************************)
(* Invoice reconciliation core of adse_navigator.                          *)
(*                                                                         *)
(*   reconstructLines  src/lib/invoice-parser.ts      (SpecLines)          *)
(*   parsePtDecimal    src/lib/invoice-parser.ts      (SpecDecimal)        *)
(*   detectProvider    src/lib/invoice-parser.ts      (SpecDetect)         *)
(*   checkItems        src/app/components/RulesPanel.tsx  (SpecCheck)      *)
(*   parseCUF          src/lib/invoice-parser.ts      (SpecParse)          *)
(*   InvoiceChecker    src/app/components/RulesPanel.tsx  (SpecProcess)    *)
(*   SearchBar         src/app/components/SearchBar.tsx   (SpecSearch)     *)
(*   TableVersionProvider  src/lib/invoice-parser.ts  (SpecTable)          *)
(*                                                                         *)
(* Strings are sequences of one-character strings.  Money is fixed point,  *)
(* in tenths of a cent (2.00 EUR = 2000).    A fragment's y coordinate is  *)
(* in half units (y = 99.5 is 199), so that Math.round has work to do.     *)
(***************************************************************************)
EXTENDS Integers, Sequences, FiniteSets, TLC

VARIABLES
    items,          \* reconstructLines: the fragment stream of one page
    lineTexts,      \* reconstructLines: the returned lines
    linesPc,        \* "start" | "done"
    decInput,       \* parsePtDecimal: the argument s
    decResult,      \* parsePtDecimal: the returned number
    decPc,          \* "start" | "done"
    text,           \* detectProvider: the extracted text
    provider,       \* detectProvider: the returned provider, or Null
    detectPc,       \* "start" | "done"
    procedures,     \* the catalog (data/procedures.json), in file order
    invoiceItems,   \* checkItems: the argument items
    checkedItems,   \* checkItems: the returned list
    checkPc,        \* "start" | "done"
    cufLines,       \* parseCUF: the lines of the text, each as its tokens
    lineIdx,        \* parseCUF: the loop index i, counted from 1
    cufItems,       \* parseCUF: items
    descBuffer,     \* parseCUF: descBuffer
    itemLine,       \* for each item, the number of the line that pushed it
    parsePc,        \* "loop" | "done"
    state,          \* InvoiceChecker: the component state
    file,           \* processFile: the argument of the call in flight
    callPc,         \* processFile: "none" | "awaiting"
    parseCalled,    \* the last call has run provider.parse
    checkCalled,    \* the last call has run checkItems
    query,          \* SearchBar: query
    debounceRef,    \* SearchBar: the pending timer and the value it holds
    reported,       \* SearchBar: the arguments of the last onResults call
    clearedLast,    \* the clear button was pressed and the input not changed since
    mounted,        \* SearchBar is mounted
    versions,       \* TableVersionProvider: versions
    currentVersion, \* TableVersionProvider: currentVersion
    data,           \* TableVersionProvider: data
    loading,        \* TableVersionProvider: loading
    cache,          \* TableVersionProvider: the keys of cache.current
    loadPc,         \* the mount effect: "index" | "data" | "done" | "failed"
    indexLatest,    \* the mount effect: index.latest
    fetches,        \* the setVersion calls waiting for fetchVersionData
    lastSet,        \* the date of the most recent setVersion call
    lastSetFailed   \* the fetch of the most recent setVersion call was rejected

linesVars   == <<items, lineTexts, linesPc>>
decVars     == <<decInput, decResult, decPc>>
detectVars  == <<text, provider, detectPc>>
checkVars   == <<procedures, invoiceItems, checkedItems, checkPc>>
parseVars   == <<cufLines, lineIdx, cufItems, descBuffer, itemLine, parsePc>>
procVars    == <<state, file, callPc, parseCalled, checkCalled>>
searchVars  == <<query, debounceRef, reported, clearedLast, mounted>>
tableVars   ==
    <<versions, currentVersion, data, loading, cache, loadPc, indexLatest,
      fetches, lastSet, lastSetFailed>>
vars        ==
    <<linesVars, decVars, detectVars, checkVars, parseVars, procVars,
      searchVars, tableVars>>

----------------------------------------------------------------------------
(* Bounds of the model *)

MaxFrags   == 3     \* fragments on a page
MaxDecLen  == 5     \* characters of a numeric token
MaxTextLen == 4     \* characters of an extracted text
MaxItems   == 2     \* items of an invoice
MaxCatalog == 2     \* records of the catalog
MaxLines   == 3     \* lines of a text
MaxFetches == 2     \* setVersion calls waiting for the network at one time

----------------------------------------------------------------------------
(* Generic helpers *)

Abs(n) == IF n < 0 THEN -n ELSE n

\* All sequences over S of length at most n
SeqsUpTo(S, n) == UNION { [1..k -> S] : k \in 0..n }

Digits == <<"0", "1", "2", "3", "4", "5", "6", "7", "8", "9">>

IsDigit(c) == \E d \in 1..10 : Digits[d] = c

DigitVal(c) == (CHOOSE d \in 1..10 : Digits[d] = c) - 1

\* The reorderings of a sequence
Perms(s) ==
    { [i \in 1..Len(s) |-> s[f[i]]] :
        f \in { g \in [1..Len(s) -> 1..Len(s)] :
                  \A i, j \in 1..Len(s) : g[i] = g[j] => i = j } }

----------------------------------------------------------------------------
(* reconstructLines *)

\* Math.abs(y - currentY) > 2
YTolerance == 2

\* Math.round of a coordinate given in half units: .5 rounds up
MathRound(h) == (h + 1) \div 2

\* The loop's locals before the first fragment
LinesStart ==
    [hasY |-> FALSE, currentY |-> 0, currentLine |-> <<>>, lineTexts |-> <<>>]

\* One iteration of the for loop over the fragment `item`
LinesStep(st, item) ==
    LET y == MathRound(item.transform5)
    IN  IF st.hasY /\ Abs(y - st.currentY) > YTolerance
        THEN [hasY        |-> TRUE,
              currentY    |-> y,
              currentLine |-> item.str,
              lineTexts   |-> Append(st.lineTexts, st.currentLine)]
        ELSE [hasY        |-> TRUE,
              currentY    |-> y,
              currentLine |-> st.currentLine
                              \o (IF st.currentLine # <<>> THEN <<" ">> ELSE <<>>)
                              \o item.str,
              lineTexts   |-> st.lineTexts]

RECURSIVE LinesLoop(_, _)
LinesLoop(st, its) ==
    IF its = <<>> THEN st ELSE LinesLoop(LinesStep(st, Head(its)), Tail(its))

reconstructLines(its) ==
    LET st == LinesLoop(LinesStart, its)
    IN  IF st.currentLine # <<>>
        THEN Append(st.lineTexts, st.currentLine)
        ELSE st.lineTexts

\* Fragments: a text run with its position (transform[4] = x, transform[5] = y)
FragStrs == { <<"a">>, <<"b">> }
FragXs   == { 10, 20 }
FragYs   == { 100, 192, 196, 199, 200 }

Fragments == [str : FragStrs, transform4 : FragXs, transform5 : FragYs]

LinesInit ==
    /\ items \in SeqsUpTo(Fragments, MaxFrags)
    /\ lineTexts = <<>>
    /\ linesPc = "start"

ReconstructLines ==
    /\ linesPc = "start"
    /\ lineTexts' = reconstructLines(items)
    /\ linesPc' = "done"
    /\ UNCHANGED items

----------------------------------------------------------------------------
(* parsePtDecimal *)

\* A JavaScript number read from a decimal literal: NaN, or the integer part
\* and the fraction digits without trailing zeros (1234.56 = 1234, <<5, 6>>)
NaN == [nan |-> TRUE, int |-> 0, frac |-> <<>>]

RECURSIVE DigitsToNat(_)
DigitsToNat(ds) ==
    IF ds = <<>> THEN 0
    ELSE 10 * DigitsToNat(SubSeq(ds, 1, Len(ds) - 1)) + DigitVal(ds[Len(ds)])

RECURSIVE StripTrailingZeros(_)
StripTrailingZeros(ds) ==
    IF ds # <<>> /\ ds[Len(ds)] = "0"
    THEN StripTrailingZeros(SubSeq(ds, 1, Len(ds) - 1))
    ELSE ds

Number(intDigits, fracDigits) ==
    [nan  |-> FALSE,
     int  |-> DigitsToNat(intDigits),
     frac |-> StripTrailingZeros(fracDigits)]

\* The longest prefix of s made of digits
RECURSIVE DigitPrefix(_)
DigitPrefix(s) ==
    IF s # <<>> /\ IsDigit(Head(s)) THEN <<Head(s)>> \o DigitPrefix(Tail(s)) ELSE <<>>

RECURSIVE TrimStart(_)
TrimStart(s) == IF s # <<>> /\ Head(s) = " " THEN TrimStart(Tail(s)) ELSE s

\* parseFloat: leading white space is skipped, then the longest prefix that is
\* a decimal literal (digits, digits "." digits?, "." digits) is the value;
\* NaN when there is none.  Whatever follows the literal is ignored.
parseFloat(s) ==
    LET t        == TrimStart(s)
        intPart  == DigitPrefix(t)
        rest     == SubSeq(t, Len(intPart) + 1, Len(t))
        fracPart == IF rest # <<>> /\ Head(rest) = "."
                    THEN DigitPrefix(Tail(rest)) ELSE <<>>
    IN  IF intPart = <<>> /\ fracPart = <<>> THEN NaN
        ELSE Number(intPart, fracPart)

\* s.replace(/\./g, ""): every dot is removed
RemoveDots(s) == SelectSeq(s, LAMBDA c : c # ".")

\* s.replace(",", "."): the first comma only
RECURSIVE ReplaceFirstComma(_)
ReplaceFirstComma(s) ==
    IF s = <<>> THEN <<>>
    ELSE IF Head(s) = "," THEN <<".">> \o Tail(s)
    ELSE <<Head(s)>> \o ReplaceFirstComma(Tail(s))

parsePtDecimal(s) == parseFloat(ReplaceFirstComma(RemoveDots(s)))

DecChars == { "0", "1", ".", ",", " " }

\* The numeric tokens of the documentation
DecSamples ==
    { <<"1", ".", "2", "3", "4", ",", "5", "6">>,
      <<"3", " ", "1", "5", "0", ",", "0", "0">>,
      <<"3", "1", "5", "0", ",", "0", "0">> }

DecimalInit ==
    /\ decInput \in SeqsUpTo(DecChars, MaxDecLen) \cup DecSamples
    /\ decResult = NaN
    /\ decPc = "start"

ParsePtDecimal ==
    /\ decPc = "start"
    /\ decResult' = parsePtDecimal(decInput)
    /\ decPc' = "done"
    /\ UNCHANGED decInput

----------------------------------------------------------------------------
(* Provider registry *)

\* detectProvider's null
Null == [id |-> "null", label |-> "null"]

\* \w
IsWordChar(c) ==
    \/ IsDigit(c)
    \/ c \in { "A", "B", "C", "D", "E", "F", "G", "H", "I", "J", "K", "L", "M",
               "N", "O", "P", "Q", "R", "S", "T", "U", "V", "W", "X", "Y", "Z",
               "a", "b", "c", "d", "e", "f", "g", "h", "i", "j", "k", "l", "m",
               "n", "o", "p", "q", "r", "s", "t", "u", "v", "w", "x", "y", "z",
               "_" }

Upper(c) ==
    CASE c = "c" -> "C"
      [] c = "u" -> "U"
      [] c = "f" -> "F"
      [] OTHER   -> c

\* \b at the gap before position i (1 <= i <= Len(t) + 1): exactly one of the
\* two neighbours is a word character
WordBoundary(t, i) ==
    LET before == i > 1 /\ IsWordChar(t[i - 1])
        after  == i <= Len(t) /\ IsWordChar(t[i])
    IN  before # after

\* /\bCUF\b/i.test(text)
CufDetect(t) ==
    \E i \in 1..(Len(t) - 2) :
        /\ Upper(t[i]) = "C"
        /\ Upper(t[i + 1]) = "U"
        /\ Upper(t[i + 2]) = "F"
        /\ WordBoundary(t, i)
        /\ WordBoundary(t, i + 3)

PROVIDERS == << [id |-> "cuf", label |-> "CUF"] >>

\* p.detect(text) of the registered provider p
Detect(p, t) == p.id = "cuf" /\ CufDetect(t)

\* The first registered provider, whatever the text
detectProvider_NeverNull(t) == PROVIDERS[1]

\* PROVIDERS.find((p) => p.detect(text)) ?? null
detectProvider(t) ==
    IF \E i \in 1..Len(PROVIDERS) : Detect(PROVIDERS[i], t)
    THEN PROVIDERS[CHOOSE i \in 1..Len(PROVIDERS) :
                     /\ Detect(PROVIDERS[i], t)
                     /\ \A j \in 1..(i - 1) : ~Detect(PROVIDERS[j], t)]
    ELSE Null

TextChars == { "C", "u", "F", "x", " " }

\* The issuer's brand name as it is printed on a Lusiadas invoice (the
\* accented i is written "i'": it is not a word character of the regex)
LusiadasBrand == <<"L", "u", "s", "i'", "a", "d", "a", "s">>

TextSamples ==
    { LusiadasBrand,
      <<"x", " ">> \o LusiadasBrand,
      <<"C", "U", "F", " ">> \o LusiadasBrand }

DetectInit ==
    /\ text \in SeqsUpTo(TextChars, MaxTextLen) \cup TextSamples
    /\ provider = Null
    /\ detectPc = "start"

DetectProvider ==
    /\ detectPc = "start"
    /\ provider' = detectProvider(text)
    /\ detectPc' = "done"
    /\ UNCHANGED text

----------------------------------------------------------------------------
(* Price comparison: checkItems *)

\* A registry without the variable-price exception
VARIABLE_PRICE_CODES_None == {}

\* new Set(["6631"])
VARIABLE_PRICE_CODES == { <<"6", "6", "3", "1">> }

\* 0.01, the tolerance of the comparisons, in tenths of a cent
Tolerance == 10

\* parseInt(s, 10): the digits that start s (after white space); -1 is NaN
parseInt(s) ==
    LET ds == DigitPrefix(TrimStart(s))
    IN  IF ds = <<>> THEN -1 ELSE DigitsToNat(ds)

RECURSIVE NatToString(_)
NatToString(n) ==
    IF n < 10 THEN <<Digits[n + 1]>>
    ELSE NatToString(n \div 10) \o <<Digits[(n % 10) + 1]>>

\* String(n)
String(n) == IF n < 0 THEN <<"N", "a", "N">> ELSE NatToString(n)

\* The code looked up as printed, padding included
codeStripped_AsPrinted(code) == code

\* const codeStripped = String(parseInt(item.code, 10))
codeStripped(code) == String(parseInt(code))

\* procByCode.get(code): the catalog's records of that code, in catalog
\* order (buildProcLookup appends in file order); <<>> is undefined
procByCode(code) == SelectSeq(procedures, LAMBDA p : p.code = code)

\* Always the first record of the code
BestMatch_First(matches, item) == matches[1]

\* let best = matches[0]; for (m of matches) if (|m.adseCharge - efr| < 0.01) ...
BestMatch(matches, item) ==
    IF \E i \in 1..Len(matches) :
            Abs(matches[i].adseCharge - item.efrValue) < Tolerance
    THEN matches[CHOOSE i \in 1..Len(matches) :
            /\ Abs(matches[i].adseCharge - item.efrValue) < Tolerance
            /\ \A j \in 1..(i - 1) :
                 ~(Abs(matches[j].adseCharge - item.efrValue) < Tolerance)]
    ELSE matches[1]

\* Math.round(x * 100) / 100: to the cent, a half rounds towards +infinity
Round2(m) == ((m + 5) \div 10) * 10

\* A not-found item that still carries a category
NotFoundItem_WithCategory(item) ==
    item @@ [status |-> "not_found", category |-> ""]

\* return { ...item, status: "not_found" }
NotFoundItem(item) == item @@ [status |-> "not_found"]

\* A variable-price item that also carries the expected amounts
VariableItem_WithExpected(item, matches) ==
    item @@ [status |-> "variable", category |-> matches[1].category,
             expectedAdse |-> matches[1].adseCharge,
             expectedCopay |-> matches[1].copayment]

\* return { ...item, status: "variable", category: matches[0].category }
VariableItem(item, matches) ==
    item @@ [status |-> "variable", category |-> matches[1].category]

\* Only the insurer-paid amount decides
IsOk_AdseOnly(adseDiff, copayDiff) == Abs(adseDiff) < Tolerance

\* Math.abs(adseDiff) < 0.01 && Math.abs(copayDiff) < 0.01
IsOk(adseDiff, copayDiff) ==
    Abs(adseDiff) < Tolerance /\ Abs(copayDiff) < Tolerance

\* The callback of items.map
CheckItem(item) ==
    LET code    == codeStripped(item.code)
        matches == procByCode(code)
    IN  IF Len(matches) = 0
        THEN NotFoundItem(item)
        ELSE IF code \in VARIABLE_PRICE_CODES
        THEN VariableItem(item, matches)
        ELSE
          LET best          == BestMatch(matches, item)
              expectedAdse  == best.adseCharge
              expectedCopay == best.copayment
              adseDiff      == Round2(item.efrValue - expectedAdse)
              copayDiff     == Round2(item.clientValue - expectedCopay)
          IN  IF IsOk(adseDiff, copayDiff)
              THEN item @@ [status        |-> "ok",
                            expectedAdse  |-> expectedAdse,
                            expectedCopay |-> expectedCopay,
                            category      |-> best.category]
              ELSE item @@ [status        |-> "diff",
                            expectedAdse  |-> expectedAdse,
                            expectedCopay |-> expectedCopay,
                            adseDiff      |-> adseDiff,
                            copayDiff     |-> copayDiff,
                            category      |-> best.category]

\* The batch stops at the first item that is not found
checkItems_StopAtNotFound(its) ==
    LET all  == [i \in 1..Len(its) |-> CheckItem(its[i])]
        stop == { i \in 1..Len(its) : all[i].status = "not_found" }
    IN  IF stop = {} THEN all
        ELSE SubSeq(all, 1, CHOOSE i \in stop : \A j \in stop : i <= j)

checkItems(its) == [i \in 1..Len(its) |-> CheckItem(its[i])]

\* Invoice items: the code as printed, the amounts in tenths of a cent
ItemCodes ==
    { <<"6", "0">>, <<"0", "6", "0">>,
      <<"6", "6", "3", "1">>, <<"0", "6", "6", "3", "1">> }
EfrVals    == { 1995, 2000, 3000 }
ClientVals == { 500, 505 }

InvoiceItems ==
    [date : { "01/02/2025" }, code : ItemCodes, description : { "CONSULTA" },
     qty : { 1000 }, unitValue : { 2500 },
     efrValue : EfrVals, clientValue : ClientVals]

ItemFields ==
    { "date", "code", "description", "qty", "unitValue", "efrValue",
      "clientValue" }

\* Catalog records: the code in canonical form (no leading zeros).  Code 60
\* has several price records, the medication code 6631 has one.
Procedures ==
    { [code |-> <<"6", "0">>, category |-> "CONSULTAS",
       adseCharge |-> 2000, copayment |-> 500],
      [code |-> <<"6", "0">>, category |-> "CONSULTAS",
       adseCharge |-> 2000, copayment |-> 510],
      [code |-> <<"6", "0">>, category |-> "CONSULTAS",
       adseCharge |-> 3000, copayment |-> 500],
      [code |-> <<"6", "6", "3", "1">>, category |-> "MEDICAMENTOS",
       adseCharge |-> 2000, copayment |-> 500] }

CheckInit ==
    /\ procedures \in SeqsUpTo(Procedures, MaxCatalog)
    /\ invoiceItems \in SeqsUpTo(InvoiceItems, MaxItems)
    /\ checkedItems = <<>>
    /\ checkPc = "start"

CheckItems ==
    /\ checkPc = "start"
    /\ checkedItems' = checkItems(invoiceItems)
    /\ checkPc' = "done"
    /\ UNCHANGED <<procedures, invoiceItems>>

----------------------------------------------------------------------------
(* CUF invoice parser: parseCUF of src/lib/invoice-parser.ts                *)
(*                                                                         *)
(* A line is given as the sequence of its tokens, the maximal runs of      *)
(* characters that are not white space: this is what trim() and the \s+    *)
(* between the groups of the patterns see.  The empty sequence is a blank  *)
(* line.  An accented letter is one character, written with its accent     *)
(* after it ("E^").                                                        *)

\* \d+\.\d+
IsQtyTok(t) ==
    \E k \in 2..(Len(t) - 1) :
        /\ t[k] = "."
        /\ \A i \in 1..Len(t) : i # k => IsDigit(t[i])

\* [\d.,]+
IsMoneyTok(t) ==
    /\ t # <<>>
    /\ \A i \in 1..Len(t) : IsDigit(t[i]) \/ t[i] \in { ".", "," }

\* \d{2}\/\d{2}\/\d{4}
IsDateTok(t) ==
    /\ Len(t) = 10
    /\ \A i \in 1..10 : IF i \in { 3, 6 } THEN t[i] = "/" ELSE IsDigit(t[i])

\* \d+
IsCodeTok(t) == t # <<>> /\ \A i \in 1..Len(t) : IsDigit(t[i])

\* \d{5,}
IsChnmTok(t) == Len(t) >= 5 /\ \A i \in 1..Len(t) : IsDigit(t[i])

\* The last n tokens of a line
LastN(line, n) == SubSeq(line, Len(line) - n + 1, Len(line))

\* qty clientValue date totalValue code efrValue
IsDataTail(f) ==
    /\ IsQtyTok(f[1]) /\ IsMoneyTok(f[2]) /\ IsDateTok(f[3])
    /\ IsMoneyTok(f[4]) /\ IsCodeTok(f[5]) /\ IsMoneyTok(f[6])

\* qty clientValue date totalValue code chnm efrValue
IsDataChnmTail(f) ==
    /\ IsQtyTok(f[1]) /\ IsMoneyTok(f[2]) /\ IsDateTok(f[3])
    /\ IsMoneyTok(f[4]) /\ IsCodeTok(f[5]) /\ IsChnmTok(f[6])
    /\ IsMoneyTok(f[7])

\* line.match(...): the groups are whole tokens, the description (.+?) is at
\* least one token
FULL_LINE_RE(line)      == Len(line) >= 7 /\ IsDataTail(LastN(line, 6))
FULL_LINE_CHNM_RE(line) == Len(line) >= 8 /\ IsDataChnmTail(LastN(line, 7))
DATA_RE(line)           == Len(line) = 6 /\ IsDataTail(line)
DATA_CHNM_RE(line)      == Len(line) = 7 /\ IsDataChnmTail(line)

\* arr.join(" ")
RECURSIVE Join(_)
Join(arr) ==
    IF arr = <<>> THEN <<>>
    ELSE IF Len(arr) = 1 THEN arr[1]
    ELSE arr[1] \o <<" ">> \o Join(Tail(arr))

RECURSIVE TrimEnd(_)
TrimEnd(s) ==
    IF s # <<>> /\ s[Len(s)] = " " THEN TrimEnd(SubSeq(s, 1, Len(s) - 1)) ELSE s

\* s.trim()
Trim(s) == TrimEnd(TrimStart(s))

HasPrefix(s, w) == Len(w) <= Len(s) /\ SubSeq(s, 1, Len(w)) = w

SkipKeywords ==
    { <<"S", "u", "b", "-", "T", "o", "t", "a", "l">>,
      <<"T", "o", "t", "a", "l">>,
      <<"C", "o", "n", "t", "a", "g", "e", "m">>,
      <<"H", "o", "s", "p", "i", "t", "a", "l">>,
      <<"I", "s", "e", "n", "t", "o">>,
      <<"E", "m", "i", "t", "i", "d", "o">>,
      <<"L", "0", "6", "C">>,
      <<"M", "o", "r", "a", "d", "a">>,
      <<"T", "e", "l", ".">>,
      <<"S", "e", "d", "e">>,
      <<"C", "a", "p", "i", "t", "a", "l">>,
      <<"F", "a", "t", "u", "r", "a">>,
      <<"P", "a'", "g", ".">>,
      <<"O", "r", "i", "g", "i", "n", "a", "l">>,
      <<"D", "a", "t", "a", " ", "d", "e">>,
      <<"N", "r", ".">>,
      <<"A", "T", "C", "U", "D">>,
      <<"C", "l", "i", "e", "n", "t", "e">>,
      <<"A", "c", "t", "o">>,
      <<"U", "n", "i", "t", "a'", "r", "i", "o">>,
      <<"Q", "t", "d", ".">>,
      <<"E", "F", "R">>,
      <<"P", "a", "g", "a", "m", "e", "n", "t", "o">>,
      <<"O", " ", "t", "a", "l", "a~", "o">>,
      <<"C", "O", "N", "S", "E", "R", "V", "E">>,
      <<"C", "o", "n", "v", "e", "n", "c,", "a~", "o">>,
      <<"E", "m", " ", "c", "a", "s", "o">>,
      <<"v", "i", "g", "o", "r">>,
      <<"*">> }

SectionKeywords ==
    { <<"U", "R", "G", "E^", "N", "C", "I", "A">>,
      <<"S", "E", "R", "V", "I", "C,", "O", "S">>,
      <<"P", "A", "T", "O", "L", "O", "G", "I", "A">>,
      <<"A", "N", "A'", "L", "I", "S", "E", "S">>,
      <<"A", "N", "A", "T", "O", "M", "I", "A">>,
      <<"C", "I", "R", "U", "R", "G", "I", "A">>,
      <<"C", "O", "N", "S", "U", "L", "T", "A", "S">>,
      <<"R", "X", " ">>,
      <<"T", "A", "C">>,
      <<"E", "C", "O", "G", "R", "A", "F", "I", "A">>,
      <<"M", "E", "D", "I", "C", "I", "N", "A">>,
      <<"E", "S", "T", "O", "M", "A", "T", "O", "L", "O", "G", "I", "A">>,
      <<"F", "A", "R", "M", "A", "C", "O", "S">>,
      <<"I", "M", "U", "N", "O", "H", "E", "M", "O", "T", "E", "R", "A", "P", "I", "A">>,
      <<"E", "N", "D", "O", "S", "C", "O", "P", "I", "A">>,
      <<"C", "A", "R", "D", "I", "O", "L", "O", "G", "I", "A">>,
      <<"D", "E", "R", "M", "A", "T", "O", "L", "O", "G", "I", "A">>,
      <<"F", "I", "S", "I", "A", "T", "R", "I", "A">>,
      <<"G", "A", "S", "T", "R", "O", "E", "N", "T", "E", "R", "O", "L", "O", "G", "I", "A">>,
      <<"G", "I", "N", "E", "C", "O", "L", "O", "G", "I", "A">>,
      <<"N", "E", "U", "R", "O", "L", "O", "G", "I", "A">>,
      <<"O", "F", "T", "A", "L", "M", "O", "L", "O", "G", "I", "A">>,
      <<"O", "R", "T", "O", "P", "E", "D", "I", "A">>,
      <<"O", "T", "O", "R", "R", "I", "N", "O", "L", "A", "R", "I", "N", "G", "O", "L", "O", "G", "I", "A">>,
      <<"P", "E", "D", "I", "A", "T", "R", "I", "A">>,
      <<"P", "N", "E", "U", "M", "O", "L", "O", "G", "I", "A">>,
      <<"P", "S", "I", "C", "O", "L", "O", "G", "I", "A">>,
      <<"P", "S", "I", "Q", "U", "I", "A", "T", "R", "I", "A">>,
      <<"R", "A", "D", "I", "O", "L", "O", "G", "I", "A">>,
      <<"U", "R", "O", "L", "O", "G", "I", "A">>,
      <<"S", "E", "R", "V", "I", "C,", "O", "S", " ", "E", "S", "P", "E", "C", "I", "A", "I", "S">>,
      <<"R", "X", " ", "C", "O", "N", "V", "E", "N", "C", "I", "O", "N", "A", "L">> }

\* SKIP_RE.test(line), SECTION_RE.test(line): the line starts with a keyword
SKIP_RE(line)    == \E w \in SkipKeywords : HasPrefix(Join(line), w)
SECTION_RE(line) == \E w \in SectionKeywords : HasPrefix(Join(line), w)

\* a / b of two numbers: NaN, Infinity, or the quotient as a fraction in
\* lowest terms
RECURSIVE Gcd(_, _)
Gcd(a, b) == IF b = 0 THEN a ELSE Gcd(b, a % b)

RECURSIVE Pow10(_)
Pow10(k) == IF k = 0 THEN 1 ELSE 10 * Pow10(k - 1)

\* x * 10^k, for a number x with at most k decimals
Scaled(x, k) ==
    x.int * Pow10(k) + DigitsToNat(x.frac) * Pow10(k - Len(x.frac))

Divide(a, b) ==
    LET k == IF Len(a.frac) > Len(b.frac) THEN Len(a.frac) ELSE Len(b.frac)
        n == Scaled(a, k)
        d == Scaled(b, k)
    IN  IF a.nan \/ b.nan \/ (n = 0 /\ d = 0)
        THEN [nan |-> TRUE, inf |-> FALSE, num |-> 0, den |-> 1]
        ELSE IF d = 0
        THEN [nan |-> FALSE, inf |-> TRUE, num |-> 0, den |-> 1]
        ELSE [nan |-> FALSE, inf |-> FALSE,
              num |-> n \div Gcd(n, d), den |-> d \div Gcd(n, d)]

\* The token before the efrValue is taken as the code
CufItem_CodeBeforeEfr(desc, f, efrTok) ==
    [date        |-> f[3],
     code        |-> f[Len(f) - 1],
     description |-> desc,
     qty         |-> parseFloat(f[1]),
     unitValue   |-> Divide(parsePtDecimal(f[4]), parseFloat(f[1])),
     efrValue    |-> parsePtDecimal(efrTok),
     clientValue |-> parsePtDecimal(f[2])]

\* The item pushed for the fields f = qty clientValue date totalValue code,
\* the description desc and the efrValue token
CufItem(desc, f, efrTok) ==
    [date        |-> f[3],
     code        |-> f[5],
     description |-> desc,
     qty         |-> parseFloat(f[1]),
     unitValue   |-> Divide(parsePtDecimal(f[4]), parseFloat(f[1])),
     efrValue    |-> parsePtDecimal(efrTok),
     clientValue |-> parsePtDecimal(f[2])]

\* Full lines: description: m[1].trim()
FullLineItem(line, n) ==
    CufItem(Trim(Join(SubSeq(line, 1, Len(line) - n))), LastN(line, n), line[Len(line)])

\* Only the last buffered line becomes the description
DataLineItem_LastLine(line, buffer) ==
    CufItem(IF buffer = <<>> THEN <<>> ELSE Trim(buffer[Len(buffer)]),
            line, line[Len(line)])

\* Data-only lines: description: descBuffer.join(" ").trim()
DataLineItem(line, buffer) ==
    CufItem(Trim(Join(buffer)), line, line[Len(line)])

\* Items are put in front of the list instead of behind it
CufStep_Prepend(st, line, i) ==
    IF FULL_LINE_RE(line) \/ FULL_LINE_CHNM_RE(line)
    THEN [items      |-> <<FullLineItem(line, IF FULL_LINE_CHNM_RE(line) THEN 7 ELSE 6)>>
                            \o st.items,
          descBuffer |-> <<>>,
          from       |-> <<i>> \o st.from]
    ELSE IF DATA_RE(line) \/ DATA_CHNM_RE(line)
    THEN [items      |-> <<DataLineItem(line, st.descBuffer)>> \o st.items,
          descBuffer |-> <<>>,
          from       |-> <<i>> \o st.from]
    ELSE IF line = <<>> THEN st
    ELSE IF SKIP_RE(line) \/ SECTION_RE(line)
    THEN [st EXCEPT !.descBuffer = <<>>]
    ELSE [st EXCEPT !.descBuffer = Append(st.descBuffer, Join(line))]

\* The locals of parseCUF after the line `line` (number i), from the locals
\* st = [items, descBuffer, from]; `from` records the line of each item
CufStep(st, line, i) ==
    IF line = <<>> THEN st
    ELSE IF FULL_LINE_CHNM_RE(line)
    THEN [items      |-> Append(st.items, FullLineItem(line, 7)),
          descBuffer |-> <<>>,
          from       |-> Append(st.from, i)]
    ELSE IF FULL_LINE_RE(line)
    THEN [items      |-> Append(st.items, FullLineItem(line, 6)),
          descBuffer |-> <<>>,
          from       |-> Append(st.from, i)]
    ELSE IF DATA_CHNM_RE(line)
    THEN [items      |-> Append(st.items, DataLineItem(line, st.descBuffer)),
          descBuffer |-> <<>>,
          from       |-> Append(st.from, i)]
    ELSE IF DATA_RE(line)
    THEN [items      |-> Append(st.items, DataLineItem(line, st.descBuffer)),
          descBuffer |-> <<>>,
          from       |-> Append(st.from, i)]
    ELSE IF SKIP_RE(line)
    THEN [st EXCEPT !.descBuffer = <<>>]
    ELSE IF SECTION_RE(line)
    THEN [st EXCEPT !.descBuffer = <<>>]
    ELSE [st EXCEPT !.descBuffer = Append(st.descBuffer, Join(line))]

\* Tokens of the CUF layout
TokQty     == <<"1", ".", "0", "0">>
TokClient  == <<"5", ",", "0", "0">>
TokTotal   == <<"2", "5", ",", "0", "0">>
TokEfr     == <<"2", "0", ",", "0", "0">>
TokDate    == <<"0", "1", "/", "0", "2", "/", "2", "0", "2", "5">>
TokCode    == <<"6", "0">>
TokCode2   == <<"6", "6", "3", "1">>
TokChnm    == <<"1", "2", "3", "4", "5">>
TokWord1   == <<"C", "O", "N", "S", "U", "L", "T", "A">>
TokWord2   == <<"E", "X", "T", "E", "R", "N", "A">>
TokTotalKw == <<"T", "o", "t", "a", "l">>
TokSection == <<"T", "A", "C">>

CufTail     == <<TokQty, TokClient, TokDate, TokTotal, TokCode, TokEfr>>
CufChnmTail == <<TokQty, TokClient, TokDate, TokTotal, TokCode2, TokChnm, TokEfr>>

\* What may stand before the numeric fields, and the numeric fields
CufPrefixes == { <<>>, <<TokWord1>>, <<TokWord2>>, <<TokTotalKw>>, <<TokSection>> }
CufTails    == { <<>>, CufTail, CufChnmTail }

\* Data lines with a quantity of zero, and with a money token that is no number
CufOddLines ==
    { << <<"0", ".", "0", "0">>, TokClient, TokDate, TokTotal, TokCode, TokEfr >>,
      << TokQty, TokClient, TokDate, TokTotal, TokCode, <<",">> >> }

CufLines == { p \o t : p \in CufPrefixes, t \in CufTails } \cup CufOddLines

ParseInit ==
    /\ cufLines \in SeqsUpTo(CufLines, MaxLines)
    /\ lineIdx = 1
    /\ cufItems = <<>>
    /\ descBuffer = <<>>
    /\ itemLine = <<>>
    /\ parsePc = "loop"

\* One iteration of for (let i = 0; i < lines.length; i++)
ParseLine ==
    /\ parsePc = "loop"
    /\ lineIdx <= Len(cufLines)
    /\ LET st == CufStep([items |-> cufItems, descBuffer |-> descBuffer,
                          from |-> itemLine], cufLines[lineIdx], lineIdx)
       IN  /\ cufItems' = st.items
           /\ descBuffer' = st.descBuffer
           /\ itemLine' = st.from
    /\ lineIdx' = lineIdx + 1
    /\ UNCHANGED <<cufLines, parsePc>>

\* return items
ParseReturn ==
    /\ parsePc = "loop"
    /\ lineIdx > Len(cufLines)
    /\ parsePc' = "done"
    /\ UNCHANGED <<cufLines, lineIdx, cufItems, descBuffer, itemLine>>

----------------------------------------------------------------------------
(* InvoiceChecker (src/app/components/RulesPanel.tsx, from line 40): its     *)
(* CUF grammar, processFile, reset and the summary.  The grammar reads      *)
(* lines of the layout                                                      *)
(*   date code description [chnm] qty unitValue efrValue clientValue        *)

\* date code description qty unitValue efrValue clientValue
LINE_RE(toks) ==
    LET n == Len(toks)
    IN  /\ n >= 7
        /\ IsDateTok(toks[1]) /\ IsCodeTok(toks[2])
        /\ IsQtyTok(toks[n - 3]) /\ IsMoneyTok(toks[n - 2])
        /\ IsMoneyTok(toks[n - 1]) /\ IsMoneyTok(toks[n])

\* date code description chnm qty unitValue efrValue clientValue
LINE_WITH_CHNM_RE(toks) ==
    LET n == Len(toks)
    IN  /\ n >= 8
        /\ IsDateTok(toks[1]) /\ IsCodeTok(toks[2]) /\ IsChnmTok(toks[n - 4])
        /\ IsQtyTok(toks[n - 3]) /\ IsMoneyTok(toks[n - 2])
        /\ IsMoneyTok(toks[n - 1]) /\ IsMoneyTok(toks[n])

itemFromMatch(toks, hasChnm) ==
    LET n == Len(toks)
    IN  [date        |-> toks[1],
         code        |-> toks[2],
         description |-> Trim(Join(SubSeq(toks, 3, IF hasChnm THEN n - 5 ELSE n - 4))),
         qty         |-> parseFloat(toks[n - 3]),
         unitValue   |-> parsePtDecimal(toks[n - 2]),
         efrValue    |-> parsePtDecimal(toks[n - 1]),
         clientValue |-> parsePtDecimal(toks[n])]

\* /^(\d{2}\/\d{2}\/\d{4})\s+(\d+)\s+(.+)/
DateCodeMatch(toks) ==
    Len(toks) >= 3 /\ IsDateTok(toks[1]) /\ IsCodeTok(toks[2])

\* /^\d{2}\/\d{2}\/\d{4}/.test(next)
StartsWithDate(toks) ==
    /\ toks # <<>>
    /\ Len(toks[1]) >= 10
    /\ IsDateTok(SubSeq(toks[1], 1, 10))

StopKeywords ==
    { <<"S", "u", "b", "-", "T", "o", "t", "a", "l">>,
      <<"T", "o", "t", "a", "l">>,
      <<"C", "o", "n", "t", "a", "g", "e", "m">>,
      <<"H", "o", "s", "p", "i", "t", "a", "l">> }

\* /^(Sub-Total|Total|Contagem|Hospital)/.test(next)
StartsWithStop(toks) == \E w \in StopKeywords : HasPrefix(Join(toks), w)

\* The inner loop: lines j, j + 1, ... are added to fullLine until it matches
RECURSIVE Continuation(_, _, _)
Continuation(lines, fullLine, j) ==
    IF j > Len(lines) THEN [found |-> FALSE]
    ELSE IF StartsWithDate(lines[j]) THEN [found |-> FALSE]
    ELSE IF StartsWithStop(lines[j]) THEN [found |-> FALSE]
    ELSE
      LET full2 == fullLine \o lines[j]
      IN  IF LINE_WITH_CHNM_RE(full2)
          THEN [found |-> TRUE, item |-> itemFromMatch(full2, TRUE), i |-> j + 1]
          ELSE IF LINE_RE(full2)
          THEN [found |-> TRUE, item |-> itemFromMatch(full2, FALSE), i |-> j + 1]
          ELSE Continuation(lines, full2, j + 1)

\* The while loop from index i on; acc = [items, span], span holding the
\* first and the last line of each item
RECURSIVE ParseFrom(_, _, _)
ParseFrom(lines, i, acc) ==
    IF i > Len(lines) THEN acc
    ELSE IF LINE_WITH_CHNM_RE(lines[i])
    THEN ParseFrom(lines, i + 1,
                   [items |-> Append(acc.items, itemFromMatch(lines[i], TRUE)),
                    span  |-> Append(acc.span, <<i, i>>)])
    ELSE IF LINE_RE(lines[i])
    THEN ParseFrom(lines, i + 1,
                   [items |-> Append(acc.items, itemFromMatch(lines[i], FALSE)),
                    span  |-> Append(acc.span, <<i, i>>)])
    ELSE IF DateCodeMatch(lines[i])
         /\ Continuation(lines, lines[i], i + 1).found
    THEN LET c == Continuation(lines, lines[i], i + 1)
         IN  ParseFrom(lines, c.i,
                       [items |-> Append(acc.items, c.item),
                        span  |-> Append(acc.span, <<i, c.i - 1>>)])
    ELSE ParseFrom(lines, i + 1, acc)

parseCUF(lines) == ParseFrom(lines, 1, [items |-> <<>>, span |-> <<>>])

\* text: the lines joined by "\n"
RECURSIVE TextOf(_)
TextOf(lines) ==
    IF lines = <<>> THEN <<>>
    ELSE IF Len(lines) = 1 THEN Join(lines[1])
    ELSE Join(lines[1]) \o <<"\n">> \o TextOf(Tail(lines))

\* A parsed number in tenths of a cent
InMilli(x) ==
    x.int * 1000 + DigitsToNat(x.frac) * Pow10(3 - Len(x.frac))

\* The raw item as checkItems reads it
RawItem(it) ==
    [date |-> it.date, code |-> it.code, description |-> it.description,
     qty |-> InMilli(it.qty), unitValue |-> InMilli(it.unitValue),
     efrValue |-> InMilli(it.efrValue), clientValue |-> InMilli(it.clientValue)]

\* data/procedures.json
Catalog ==
    << [code |-> <<"6", "0">>, category |-> "CONSULTAS",
        adseCharge |-> 20000, copayment |-> 5000],
       [code |-> <<"6", "6", "3", "1">>, category |-> "MEDICAMENTOS",
        adseCharge |-> 20000, copayment |-> 5000] >>

\* arr.join(", "), as the pieces of the string
RECURSIVE JoinLabels(_)
JoinLabels(ps) ==
    IF ps = <<>> THEN <<>>
    ELSE IF Len(ps) = 1 THEN <<ps[1].label>>
    ELSE <<ps[1].label, ", ">> \o JoinLabels(Tail(ps))

\* Messages, as the pieces they are concatenated from
NotPdfMessage == <<"Por favor selecione um ficheiro PDF.">>

\* The message without the list of providers
UnsupportedMessage_NoList == <<"Formato de fatura n~ao reconhecido.">>

UnsupportedMessage ==
    <<"Formato de fatura n~ao reconhecido. Prestadores suportados: ">>
        \o JoinLabels(PROVIDERS) \o <<".">>

NoItemsMessage(p) ==
    <<"Fatura ", p.label,
      " detetada, mas n~ao foi poss'ivel extrair itens. O formato da fatura pode ter sido alterado.">>

FailedMessage ==
    <<"Erro ao processar o PDF. Verifique que o ficheiro n~ao est'a corrompido.">>

IdleState ==
    [phase |-> "idle", message |-> <<>>, provider |-> "", items |-> <<>>,
     fileName |-> ""]
LoadingState == [IdleState EXCEPT !.phase = "loading"]
ErrorState(msg) == [IdleState EXCEPT !.phase = "error", !.message = msg]
ResultsState(p, its, name) ==
    [IdleState EXCEPT !.phase = "results", !.provider = p.label, !.items = its,
                      !.fileName = name]

NoFile == [name |-> "", type |-> "", readable |-> FALSE, lines |-> <<>>]

\* The call goes on to the results with an empty list of items
Processed_EmptyResults(f) ==
    IF ~f.readable
    THEN [state |-> ErrorState(FailedMessage), parseCalled |-> FALSE,
          checkCalled |-> FALSE]
    ELSE IF detectProvider(TextOf(f.lines)) = Null
    THEN [state |-> ErrorState(UnsupportedMessage), parseCalled |-> FALSE,
          checkCalled |-> FALSE]
    ELSE
      LET r == parseCUF(f.lines)
      IN  [state |-> ResultsState(detectProvider(TextOf(f.lines)),
                                  checkItems([k \in 1..Len(r.items) |-> RawItem(r.items[k])]),
                                  f.name),
           parseCalled |-> TRUE, checkCalled |-> TRUE]

\* processFile after `await extractTextFromPDF(file)`: the new component
\* state, and what the call has run
Processed(f) ==
    IF ~f.readable
    THEN [state |-> ErrorState(FailedMessage), parseCalled |-> FALSE,
          checkCalled |-> FALSE]
    ELSE IF detectProvider(TextOf(f.lines)) = Null
    THEN [state |-> ErrorState(UnsupportedMessage), parseCalled |-> FALSE,
          checkCalled |-> FALSE]
    ELSE
      LET p == detectProvider(TextOf(f.lines))
          r == parseCUF(f.lines)
      IN  IF Len(r.items) = 0
          THEN [state |-> ErrorState(NoItemsMessage(p)), parseCalled |-> TRUE,
                checkCalled |-> FALSE]
          ELSE [state |-> ResultsState(p,
                              checkItems([k \in 1..Len(r.items) |-> RawItem(r.items[k])]),
                              f.name),
                parseCalled |-> TRUE, checkCalled |-> TRUE]

\* reduce((sum, i) => sum + (i.copayDiff ?? 0), 0)
RECURSIVE SumCopayDiff(_)
SumCopayDiff(its) ==
    IF its = <<>> THEN 0
    ELSE SumCopayDiff(SubSeq(its, 1, Len(its) - 1))
         + (IF "copayDiff" \in DOMAIN its[Len(its)]
            THEN its[Len(its)].copayDiff ELSE 0)

\* Items with a variable price are not counted as ok
Summary_OkOnly(its) ==
    [total      |-> Len(its),
     ok         |-> Len(SelectSeq(its, LAMBDA i : i.status = "ok")),
     diff       |-> Len(SelectSeq(its, LAMBDA i : i.status = "diff")),
     notFound   |-> Len(SelectSeq(its, LAMBDA i : i.status = "not_found")),
     overcharge |-> SumCopayDiff(SelectSeq(its, LAMBDA i : i.status = "diff"))]

\* summary, for state.items = its
Summary(its) ==
    [total      |-> Len(its),
     ok         |-> Len(SelectSeq(its, LAMBDA i : i.status = "ok" \/ i.status = "variable")),
     diff       |-> Len(SelectSeq(its, LAMBDA i : i.status = "diff")),
     notFound   |-> Len(SelectSeq(its, LAMBDA i : i.status = "not_found")),
     overcharge |-> SumCopayDiff(SelectSeq(its, LAMBDA i : i.status = "diff"))]

\* Lines of the layout of this grammar: a consultation that matches the
\* catalog, one with another copayment, an unknown code, a drug with its CHNM
\* code, a line without its numbers, the numbers alone, a total, a section
\* header
DocLines ==
    LET code99  == <<"9", "9">>
        client6 == <<"6", ",", "0", "0">>
    IN  { <<TokDate, TokCode, TokWord1, TokQty, TokTotal, TokEfr, TokClient>>,
          <<TokDate, TokCode, TokWord1, TokQty, TokTotal, TokEfr, client6>>,
          <<TokDate, code99, TokWord1, TokQty, TokTotal, TokEfr, TokClient>>,
          <<TokDate, TokCode2, TokWord2, TokChnm, TokQty, TokTotal, TokEfr, TokClient>>,
          <<TokDate, TokCode, TokWord1>>,
          <<TokQty, TokTotal, TokEfr, TokClient>>,
          <<TokTotalKw>>,
          <<TokSection>> }

\* The first line of a document names the issuer, or there is none
DocHeaders ==
    LET hospital == <<"H", "o", "s", "p", "i", "t", "a", "l">>
    IN  { <<>>, << <<hospital, <<"C", "U", "F">> >> >>,
          << <<hospital, <<"L", "u", "z">> >> >> }

\* The files a user can pick: PDFs whose text can be extracted, a PDF that
\* cannot be read, and a file that is no PDF
Files ==
    { [name |-> "fatura.pdf", type |-> "application/pdf", readable |-> TRUE,
       lines |-> h \o b] : h \in DocHeaders, b \in SeqsUpTo(DocLines, MaxLines) }
    \cup { [name |-> "fatura.pdf", type |-> "application/pdf",
            readable |-> FALSE, lines |-> <<>>],
           [name |-> "fatura.png", type |-> "image/png",
            readable |-> TRUE, lines |-> <<>>] }

ProcessInit ==
    /\ state = IdleState
    /\ file = NoFile
    /\ callPc = "none"
    /\ parseCalled = FALSE
    /\ checkCalled = FALSE

\* processFile(file), up to the await, or to the return for a file that is no
\* PDF; the drop zone is shown in the phases idle and error
ProcessFile ==
    /\ state.phase \in { "idle", "error" }
    /\ \E f \in Files :
        IF f.type # "application/pdf"
        THEN state' = ErrorState(NotPdfMessage) /\ UNCHANGED <<file, callPc>>
        ELSE state' = LoadingState /\ file' = f /\ callPc' = "awaiting"
    /\ parseCalled' = FALSE
    /\ checkCalled' = FALSE

\* processFile from the await to its end
ProcessFileResume ==
    /\ callPc = "awaiting"
    /\ LET r == Processed(file)
       IN  /\ state' = r.state
           /\ parseCalled' = r.parseCalled
           /\ checkCalled' = r.checkCalled
    /\ callPc' = "none"
    /\ file' = NoFile

\* reset, the button of the results view
Reset ==
    /\ state.phase = "results"
    /\ state' = IdleState
    /\ UNCHANGED <<file, callPc, parseCalled, checkCalled>>

----------------------------------------------------------------------------
(* SearchBar (src/app/components/SearchBar.tsx)                             *)

\* w occurs in t
HasInfix(t, w) ==
    \E i \in 1..(Len(t) - Len(w) + 1) : SubSeq(t, i, i + Len(w) - 1) = w

\* The procedures prop
SearchProcedures ==
    << [code |-> <<"6", "0">>, designation |-> <<"a", "b", "c">>],
       [code |-> <<"6", "1">>, designation |-> <<"a", "b", "d">>] >>

\* fuse.search(q, { limit: 50 }).map((r) => r.item): the procedures whose code
\* or designation holds q (the fuzzy ranking of fuse.js is not modelled)
FuseSearch(q) ==
    SelectSeq(SearchProcedures,
              LAMBDA r : HasInfix(r.code, Trim(q)) \/ HasInfix(r.designation, Trim(q)))

\* doSearch(q): the onResults call it makes
doSearch(q) ==
    IF Len(Trim(q)) < 2
    THEN [results |-> <<>>, query |-> q]
    ELSE [results |-> FuseSearch(q), query |-> q]

\* What a user types
InputValues ==
    { <<>>, <<"a">>, <<"a", "b">>, <<" ", "a">>, <<"6", "0">>, <<"a", "b", "c">> }

NoTimer == [pending |-> FALSE, val |-> <<>>]
NoCall  == [results |-> <<>>, query |-> <<"-">>]

SearchInit ==
    /\ query = <<>>
    /\ debounceRef = NoTimer
    /\ reported = NoCall
    /\ clearedLast = FALSE
    /\ mounted = TRUE

\* handleChange: the pending timer is replaced by a new one
HandleChange ==
    /\ mounted
    /\ \E val \in InputValues :
        /\ val # query
        /\ query' = val
        /\ debounceRef' = [pending |-> TRUE, val |-> val]
    /\ clearedLast' = FALSE
    /\ UNCHANGED <<reported, mounted>>

\* The timer of handleChange fires after 300 ms: () => doSearch(val)
DebounceFires ==
    /\ debounceRef.pending
    /\ reported' = doSearch(debounceRef.val)
    /\ debounceRef' = [debounceRef EXCEPT !.pending = FALSE]
    /\ UNCHANGED <<query, clearedLast, mounted>>

\* onClick of the clear button, which is shown while query is not empty
ClearClick ==
    /\ mounted
    /\ query # <<>>
    /\ query' = <<>>
    /\ reported' = [results |-> <<>>, query |-> <<>>]
    /\ clearedLast' = TRUE
    /\ UNCHANGED <<debounceRef, mounted>>

\* The cleanup of the effect: clearTimeout on unmount
Unmount ==
    /\ mounted
    /\ mounted' = FALSE
    /\ debounceRef' = [debounceRef EXCEPT !.pending = FALSE]
    /\ UNCHANGED <<query, reported, clearedLast>>

----------------------------------------------------------------------------
(* TableVersionProvider (src/lib/TableVersionContext.tsx, kept in            *)
(* src/lib/invoice-parser.ts from line 206)                                 *)

\* The dates of versions.json
Dates == { "2024-01", "2025-01", "2025-07" }

\* What fetchVersionData(date) resolves to
VersionData(date) == [procedures |-> date, rules |-> date, metadata |-> date]

\* useState<VersionData>({ procedures: [], rules: [], metadata: null })
EmptyData == [procedures |-> "[]", rules |-> "[]", metadata |-> "null"]

TableInit ==
    /\ versions = {}
    /\ currentVersion = ""
    /\ data = EmptyData
    /\ loading = TRUE
    /\ cache = {}
    /\ loadPc = "index"
    /\ indexLatest = ""
    /\ fetches = <<>>
    /\ lastSet = ""
    /\ lastSetFailed = FALSE

\* fetch("/data/versions.json") resolves: up to await fetchVersionData
IndexResolves ==
    /\ loadPc = "index"
    /\ \E latest \in Dates :
        /\ indexLatest' = latest
        /\ currentVersion' = latest
    /\ versions' = Dates
    /\ loadPc' = "data"
    /\ UNCHANGED <<data, loading, cache, fetches, lastSet, lastSetFailed>>

\* fetch("/data/versions.json") is rejected: the catch
IndexRejects ==
    /\ loadPc = "index"
    /\ loading' = FALSE
    /\ loadPc' = "failed"
    /\ UNCHANGED <<versions, currentVersion, data, cache, indexLatest, fetches,
                   lastSet, lastSetFailed>>

\* fetchVersionData(index.latest) resolves
LatestResolves ==
    /\ loadPc = "data"
    /\ cache' = cache \cup { indexLatest }
    /\ data' = VersionData(indexLatest)
    /\ loading' = FALSE
    /\ loadPc' = "done"
    /\ UNCHANGED <<versions, currentVersion, indexLatest, fetches, lastSet,
                   lastSetFailed>>

\* fetchVersionData(index.latest) is rejected: the catch
LatestRejects ==
    /\ loadPc = "data"
    /\ loading' = FALSE
    /\ loadPc' = "failed"
    /\ UNCHANGED <<versions, currentVersion, data, cache, indexLatest, fetches,
                   lastSet, lastSetFailed>>

\* Every waiting call is no longer the most recent one
Older(fs) == [i \in 1..Len(fs) |-> [fs[i] EXCEPT !.latest = FALSE]]

\* setVersion(date), up to its return or its await; the dates a consumer can
\* ask for are those of versions
SetVersion ==
    \E date \in versions :
        /\ lastSet' = date
        /\ lastSetFailed' = FALSE
        /\ IF date = currentVersion
           THEN /\ fetches' = Older(fetches)
                /\ UNCHANGED <<currentVersion, data, loading>>
           ELSE IF date \in cache
           THEN /\ currentVersion' = date
                /\ data' = VersionData(date)
                /\ fetches' = Older(fetches)
                /\ UNCHANGED loading
           ELSE /\ Len(fetches) < MaxFetches
                /\ loading' = TRUE
                /\ fetches' = Append(Older(fetches), [date |-> date, latest |-> TRUE])
                /\ UNCHANGED <<currentVersion, data>>
        /\ UNCHANGED <<versions, cache, loadPc, indexLatest>>

Without(fs, i) == SubSeq(fs, 1, i - 1) \o SubSeq(fs, i + 1, Len(fs))

\* setVersion after its await, the fetch resolved: try and finally
FetchResolves ==
    \E i \in 1..Len(fetches) :
        /\ cache' = cache \cup { fetches[i].date }
        /\ currentVersion' = fetches[i].date
        /\ data' = VersionData(fetches[i].date)
        /\ loading' = FALSE
        /\ fetches' = Without(fetches, i)
        /\ UNCHANGED <<versions, loadPc, indexLatest, lastSet, lastSetFailed>>

\* setVersion after its await, the fetch rejected: catch and finally
FetchRejects ==
    \E i \in 1..Len(fetches) :
        /\ loading' = FALSE
        /\ fetches' = Without(fetches, i)
        /\ lastSetFailed' = (lastSetFailed \/ fetches[i].latest)
        /\ UNCHANGED <<versions, currentVersion, data, cache, loadPc,
                       indexLatest, lastSet>>

----------------------------------------------------------------------------
(* Specifications: one per component, the other components at rest *)

LinesIdle   == items = <<>> /\ lineTexts = <<>> /\ linesPc = "idle"
DecimalIdle == decInput = <<>> /\ decResult = NaN /\ decPc = "idle"
DetectIdle  == text = <<>> /\ provider = Null /\ detectPc = "idle"
CheckIdle   ==
    /\ procedures = <<>> /\ invoiceItems = <<>> /\ checkedItems = <<>>
    /\ checkPc = "idle"

ParseIdle   ==
    /\ cufLines = <<>> /\ lineIdx = 0 /\ cufItems = <<>> /\ descBuffer = <<>>
    /\ itemLine = <<>> /\ parsePc = "idle"

ProcessIdle ==
    /\ state = IdleState /\ file = NoFile /\ callPc = "idle"
    /\ parseCalled = FALSE /\ checkCalled = FALSE

SearchIdle ==
    /\ query = <<>> /\ debounceRef = NoTimer /\ reported = NoCall
    /\ clearedLast = FALSE /\ mounted = FALSE

TableIdle ==
    /\ versions = {} /\ currentVersion = "" /\ data = EmptyData
    /\ loading = FALSE /\ cache = {} /\ loadPc = "idle" /\ indexLatest = ""
    /\ fetches = <<>> /\ lastSet = "" /\ lastSetFailed = FALSE

InitLines == LinesInit /\ DecimalIdle /\ DetectIdle /\ CheckIdle /\ ParseIdle
    /\ ProcessIdle /\ SearchIdle /\ TableIdle
NextLines ==
    ReconstructLines /\ UNCHANGED <<decVars, detectVars, checkVars, parseVars, procVars,
                 searchVars, tableVars>>
SpecLines == InitLines /\ [][NextLines]_vars

InitDecimal == DecimalInit /\ LinesIdle /\ DetectIdle /\ CheckIdle /\ ParseIdle
    /\ ProcessIdle /\ SearchIdle /\ TableIdle
NextDecimal ==
    ParsePtDecimal /\ UNCHANGED <<linesVars, detectVars, checkVars, parseVars, procVars,
                 searchVars, tableVars>>
SpecDecimal == InitDecimal /\ [][NextDecimal]_vars

InitDetect == DetectInit /\ LinesIdle /\ DecimalIdle /\ CheckIdle /\ ParseIdle
    /\ ProcessIdle /\ SearchIdle /\ TableIdle
NextDetect ==
    DetectProvider /\ UNCHANGED <<linesVars, decVars, checkVars, parseVars, procVars,
                 searchVars, tableVars>>
SpecDetect == InitDetect /\ [][NextDetect]_vars

InitCheck == CheckInit /\ LinesIdle /\ DecimalIdle /\ DetectIdle /\ ParseIdle
    /\ ProcessIdle /\ SearchIdle /\ TableIdle
NextCheck ==
    CheckItems /\ UNCHANGED <<linesVars, decVars, detectVars, parseVars, procVars,
                 searchVars, tableVars>>
SpecCheck == InitCheck /\ [][NextCheck]_vars

InitParse == ParseInit /\ LinesIdle /\ DecimalIdle /\ DetectIdle /\ CheckIdle
    /\ ProcessIdle /\ SearchIdle /\ TableIdle
NextParse ==
    \/ ParseLine /\ UNCHANGED <<linesVars, decVars, detectVars, checkVars, procVars,
                 searchVars, tableVars>>
    \/ ParseReturn /\ UNCHANGED <<linesVars, decVars, detectVars, checkVars, procVars,
                 searchVars, tableVars>>
SpecParse == InitParse /\ [][NextParse]_vars

\* The catalog is the imported data file
InitProcess ==
    /\ ProcessInit /\ LinesIdle /\ DecimalIdle /\ DetectIdle /\ ParseIdle
    /\ procedures = Catalog /\ invoiceItems = <<>> /\ checkedItems = <<>>
    /\ checkPc = "idle"
    /\ SearchIdle /\ TableIdle
NextProcess ==
    \/ ProcessFile /\ UNCHANGED <<linesVars, decVars, detectVars, checkVars, parseVars,
                 searchVars, tableVars>>
    \/ ProcessFileResume
         /\ UNCHANGED <<linesVars, decVars, detectVars, checkVars, parseVars,
                 searchVars, tableVars>>
    \/ Reset /\ UNCHANGED <<linesVars, decVars, detectVars, checkVars, parseVars,
                 searchVars, tableVars>>
SpecProcess == InitProcess /\ [][NextProcess]_vars

OthersIdle ==
    /\ LinesIdle /\ DecimalIdle /\ DetectIdle /\ CheckIdle /\ ParseIdle
    /\ ProcessIdle
othersVars == <<linesVars, decVars, detectVars, checkVars, parseVars, procVars>>

InitSearch == SearchInit /\ OthersIdle /\ TableIdle
NextSearch ==
    \/ HandleChange /\ UNCHANGED <<othersVars, tableVars>>
    \/ DebounceFires /\ UNCHANGED <<othersVars, tableVars>>
    \/ ClearClick /\ UNCHANGED <<othersVars, tableVars>>
    \/ Unmount /\ UNCHANGED <<othersVars, tableVars>>
SpecSearch == InitSearch /\ [][NextSearch]_vars

InitTable == TableInit /\ OthersIdle /\ SearchIdle
NextTable ==
    \/ IndexResolves /\ UNCHANGED <<othersVars, searchVars>>
    \/ IndexRejects /\ UNCHANGED <<othersVars, searchVars>>
    \/ LatestResolves /\ UNCHANGED <<othersVars, searchVars>>
    \/ LatestRejects /\ UNCHANGED <<othersVars, searchVars>>
    \/ SetVersion /\ UNCHANGED <<othersVars, searchVars>>
    \/ FetchResolves /\ UNCHANGED <<othersVars, searchVars>>
    \/ FetchRejects /\ UNCHANGED <<othersVars, searchVars>>
SpecTable == InitTable /\ [][NextTable]_vars

----------------------------------------------------------------------------
(* Properties *)

\* A code without its leading zeros (one digit is kept)
RECURSIVE StripLeadingZeros(_)
StripLeadingZeros(code) ==
    IF Len(code) > 1 /\ Head(code) = "0" THEN StripLeadingZeros(Tail(code))
    ELSE code

\* The positions of the catalog records of an invoice code
RecordsOf(code) ==
    { k \in 1..Len(procedures) : procedures[k].code = StripLeadingZeros(code) }

IsVariableCode(code) == StripLeadingZeros(code) = <<"6", "6", "3", "1">>

FirstOf(S) == CHOOSE k \in S : \A j \in S : k <= j

WithinCent(k, it) == Abs(procedures[k].adseCharge - it.efrValue) < Tolerance

\* The record the item is to be compared against
ExpectedRecord(it) ==
    LET recs  == RecordsOf(it.code)
        close == { k \in recs : WithinCent(k, it) }
    IN  procedures[IF close # {} THEN FirstOf(close) ELSE FirstOf(recs)]

\* C1: reconstructLines returns the same lines, in the same order and with
\* the same fragment order inside each line, for every reordering of the
\* fragment stream.
C1_StreamOrderIndependent ==
    linesPc = "done" =>
        \A p \in Perms(items) : reconstructLines(p) = lineTexts

\* C2: checkItems returns one CheckedItem per input item, at the same
\* position, built from that item; nothing is dropped, merged or reordered,
\* and an item that is not found does not stop the items after it.
C2_OnePerItemInOrder ==
    checkPc = "done" =>
        /\ Len(checkedItems) = Len(invoiceItems)
        /\ \A i \in 1..Len(invoiceItems) :
             /\ \A f \in ItemFields : checkedItems[i][f] = invoiceItems[i][f]
             /\ checkedItems[i] = CheckItem(invoiceItems[i])

\* C2 witness: an item that is not found is followed by a different item
\* that was checked.
C2_Witness ==
    /\ checkPc = "done"
    /\ Len(checkedItems) = 2
    /\ invoiceItems[1] # invoiceItems[2]
    /\ checkedItems[1].status = "not_found"
    /\ checkedItems[2].status # "not_found"

\* C3: an item whose code is in the catalog and is not a variable-price code
\* gets status ok exactly when round2(efrValue - expectedAdse) and
\* round2(clientValue - expectedCopay) are both less than a cent from zero,
\* and status diff (with those two rounded differences) otherwise.
C3_OkIffBothDiffsWithinCent ==
    checkPc = "done" =>
        \A i \in 1..Len(checkedItems) :
            LET it == invoiceItems[i]
                r  == checkedItems[i]
            IN  (RecordsOf(it.code) # {} /\ ~IsVariableCode(it.code)) =>
                  /\ r.status \in { "ok", "diff" }
                  /\ r.status = "ok" <=>
                       /\ Abs(Round2(it.efrValue - r.expectedAdse)) < Tolerance
                       /\ Abs(Round2(it.clientValue - r.expectedCopay)) < Tolerance
                  /\ r.status = "diff" =>
                       /\ r.adseDiff = Round2(it.efrValue - r.expectedAdse)
                       /\ r.copayDiff = Round2(it.clientValue - r.expectedCopay)

\* C3 witness: one item is ok, another is diff although its insurer-paid
\* amount agrees, because its copayment does not.
C3_Witness ==
    /\ checkPc = "done"
    /\ \E i, j \in 1..Len(checkedItems) :
         /\ checkedItems[i].status = "ok"
         /\ checkedItems[j].status = "diff"
         /\ checkedItems[j].adseDiff = 0
         /\ checkedItems[j].copayDiff # 0

\* C4 (as claimed): an item with code 6631, zero-padded or not, gets status
\* variable whatever its amounts and whatever the catalog contains, and
\* carries no diff.
C4_AlwaysVariable ==
    checkPc = "done" =>
        \A i \in 1..Len(checkedItems) :
            IsVariableCode(invoiceItems[i].code) =>
              /\ checkedItems[i].status = "variable"
              /\ "adseDiff" \notin DOMAIN checkedItems[i]
              /\ "copayDiff" \notin DOMAIN checkedItems[i]

\* C4 (amended): an item with code 6631, zero-padded or not, gets status
\* variable (with the category of the first 6631 record) whatever its
\* amounts when the catalog has a record for 6631, and not_found when it has
\* none; no diff is computed for it in either case.
C4_VariableWhenInCatalog ==
    checkPc = "done" =>
        \A i \in 1..Len(checkedItems) :
            LET it == invoiceItems[i]
                r  == checkedItems[i]
            IN  IsVariableCode(it.code) =>
                  /\ RecordsOf(it.code) # {} =>
                       /\ r.status = "variable"
                       /\ r.category = procedures[FirstOf(RecordsOf(it.code))].category
                  /\ RecordsOf(it.code) = {} => r.status = "not_found"
                  /\ "adseDiff" \notin DOMAIN r
                  /\ "copayDiff" \notin DOMAIN r

\* C4 witness: a zero-padded 6631 whose insurer-paid amount is not the
\* catalog's is variable.
C4_Witness ==
    /\ checkPc = "done"
    /\ \E i \in 1..Len(checkedItems) :
         /\ invoiceItems[i].code = <<"0", "6", "6", "3", "1">>
         /\ checkedItems[i].status = "variable"
         /\ \A k \in RecordsOf(invoiceItems[i].code) :
              procedures[k].adseCharge # invoiceItems[i].efrValue

\* C5: an item whose normalized code has no catalog record gets status
\* not_found and carries nothing but the item's fields and the status.
C5_NotFoundCarriesNoExpectation ==
    checkPc = "done" =>
        \A i \in 1..Len(checkedItems) :
            RecordsOf(invoiceItems[i].code) = {} =>
              /\ checkedItems[i].status = "not_found"
              /\ DOMAIN checkedItems[i] = ItemFields \cup { "status" }

\* C5 witness: a catalog with records, none of them for the item's code.
C5_Witness ==
    /\ checkPc = "done"
    /\ Len(procedures) > 0
    /\ \E i \in 1..Len(checkedItems) : checkedItems[i].status = "not_found"

\* C6: the expected values are those of the first record of the code, in
\* catalog order, whose adseCharge is less than a cent from the invoiced
\* efrValue, and of the first record of the code when there is none.
C6_BestMatchFirstWithinCentElseFirst ==
    checkPc = "done" =>
        \A i \in 1..Len(checkedItems) :
            LET it == invoiceItems[i]
                r  == checkedItems[i]
            IN  r.status \in { "ok", "diff" } =>
                  /\ r.expectedAdse = ExpectedRecord(it).adseCharge
                  /\ r.expectedCopay = ExpectedRecord(it).copayment
                  /\ r.category = ExpectedRecord(it).category

\* C6 witness: the code has two records, the first is not within a cent of
\* the invoiced amount, and the item is compared against the second.
C6_Witness ==
    /\ checkPc = "done"
    /\ \E i \in 1..Len(checkedItems) :
         LET it   == invoiceItems[i]
             recs == RecordsOf(it.code)
         IN  /\ checkedItems[i].status \in { "ok", "diff" }
             /\ Cardinality(recs) >= 2
             /\ ~WithinCent(FirstOf(recs), it)
             /\ checkedItems[i].expectedAdse # procedures[FirstOf(recs)].adseCharge

\* C7: two items that differ only by leading zeros of the code get the same
\* status and the same expected values, and a code that the catalog holds is
\* found however it is zero-padded.
C7_LeadingZerosIrrelevant ==
    checkPc = "done" =>
        /\ \A i, j \in 1..Len(checkedItems) :
             LET a  == invoiceItems[i]
                 b  == invoiceItems[j]
                 ra == checkedItems[i]
                 rb == checkedItems[j]
             IN  ( /\ StripLeadingZeros(a.code) = StripLeadingZeros(b.code)
                   /\ \A f \in ItemFields \ { "code" } : a[f] = b[f] ) =>
                   /\ DOMAIN ra = DOMAIN rb
                   /\ \A f \in DOMAIN ra \ { "code" } : ra[f] = rb[f]
        /\ \A i \in 1..Len(checkedItems) :
             RecordsOf(invoiceItems[i].code) # {} =>
                checkedItems[i].status # "not_found"

\* C7 witness: 060 and 60 with the same amounts are both found and ok.
C7_Witness ==
    /\ checkPc = "done"
    /\ Len(checkedItems) = 2
    /\ invoiceItems[1].code = <<"0", "6", "0">>
    /\ invoiceItems[2].code = <<"6", "0">>
    /\ invoiceItems[1].efrValue = invoiceItems[2].efrValue
    /\ invoiceItems[1].clientValue = invoiceItems[2].clientValue
    /\ checkedItems[1].status = "ok"
    /\ checkedItems[2].status = "ok"

AllDigits(s) == \A i \in 1..Len(s) : IsDigit(s[i])

\* 1 to 3 digits, then groups of a dot or a space and 3 digits
IsGrouped(s) ==
    \E n \in 1..3 :
        /\ n <= Len(s)
        /\ AllDigits(SubSeq(s, 1, n))
        /\ (Len(s) - n) % 4 = 0
        /\ \A k \in 0..(((Len(s) - n) \div 4) - 1) :
             /\ s[n + 4 * k + 1] \in { ".", " " }
             /\ AllDigits(SubSeq(s, n + 4 * k + 2, n + 4 * k + 4))

CommaAt(s) == { i \in 1..Len(s) : s[i] = "," }

IntegerPart(s) ==
    IF CommaAt(s) = {} THEN s ELSE SubSeq(s, 1, FirstOf(CommaAt(s)) - 1)

FractionPart(s) ==
    IF CommaAt(s) = {} THEN <<>> ELSE SubSeq(s, FirstOf(CommaAt(s)) + 1, Len(s))

\* A Portuguese decimal: digits, or thousands groups separated by dots or
\* spaces, and optionally a comma and decimals
WellFormedPt(s) ==
    /\ Cardinality(CommaAt(s)) <= 1
    /\ IntegerPart(s) # <<>>
    /\ AllDigits(IntegerPart(s)) \/ IsGrouped(IntegerPart(s))
    /\ CommaAt(s) # {} => (FractionPart(s) # <<>> /\ AllDigits(FractionPart(s)))

\* The number a Portuguese decimal denotes
PtValue(s) ==
    Number(SelectSeq(IntegerPart(s), IsDigit), FractionPart(s))

\* C8: parsePtDecimal returns the numeric value of a string with a decimal
\* comma and dots or spaces as thousands separators: "1.234,56" is 1234.56,
\* and "3 150,00" is 3150.00 like "3150,00".
C8_PtDecimalValue ==
    (decPc = "done" /\ WellFormedPt(decInput)) => decResult = PtValue(decInput)

Contains(t, w) ==
    \E i \in 1..(Len(t) - Len(w) + 1) : SubSeq(t, i, i + Len(w) - 1) = w

\* The text of a Lusiadas invoice: the brand name, no standalone word CUF
IsLusiadasInvoice(t) == Contains(t, LusiadasBrand) /\ ~CufDetect(t)

DetectHits == { i \in 1..Len(PROVIDERS) : Detect(PROVIDERS[i], text) }

\* C9: detectProvider returns the first registered provider, in declaration
\* order, whose detect predicate matches the text, and null when none does.
C9_FirstMatchOrNull ==
    detectPc = "done" =>
        IF DetectHits = {} THEN provider = Null
        ELSE provider = PROVIDERS[FirstOf(DetectHits)]

\* C9 witness: a text with the standalone word CUF selected a provider.
C9_Witness ==
    /\ detectPc = "done"
    /\ CufDetect(text)
    /\ provider = PROVIDERS[1]

\* C10: the text of a Lusiadas invoice is detected as the provider with id
\* "lusiadas", and the text of a CUF invoice as the provider with id "cuf".
C10_TwoIssuersDetected ==
    detectPc = "done" =>
        /\ IsLusiadasInvoice(text) => provider.id = "lusiadas"
        /\ CufDetect(text) => provider.id = "cuf"

\* The text of a line made of the fragments f[1], f[2], ...: their strings
\* joined by single spaces
RECURSIVE JoinStrs(_)
JoinStrs(f) ==
    IF f = <<>> THEN <<>>
    ELSE IF Len(f) = 1 THEN f[1].str
    ELSE f[1].str \o <<" ">> \o JoinStrs(Tail(f))

\* The ways to pick n distinct fragments of the stream, left to right
AscendingPicks(n) ==
    { [k \in 1..n |-> items[g[k]]] :
        g \in { h \in [1..n -> 1..Len(items)] :
                  /\ \A i, j \in 1..n : h[i] = h[j] => i = j
                  /\ \A i \in 1..(n - 1) :
                       items[h[i]].transform4 <= items[h[i + 1]].transform4 } }

\* C20: inside every returned line the fragments stand in ascending x order,
\* joined by single spaces, whatever their order in the stream.
C20_AscendingXInsideLine ==
    linesPc = "done" =>
        \A k \in 1..Len(lineTexts) :
            \E n \in 1..Len(items) :
                \E f \in AscendingPicks(n) : lineTexts[k] = JoinStrs(f)


----------------------------------------------------------------------------
(* Properties of parseCUF (src/lib/invoice-parser.ts)                       *)

IsItemLine(line) ==
    FULL_LINE_CHNM_RE(line) \/ FULL_LINE_RE(line) \/ DATA_CHNM_RE(line) \/ DATA_RE(line)

IsDataOnlyLine(line) == DATA_CHNM_RE(line) \/ DATA_RE(line)

IsBoundaryLine(line) == ~IsItemLine(line) /\ (SKIP_RE(line) \/ SECTION_RE(line))

\* A description line: not blank, no item, no skipped line, no section header
IsDescriptionLine(line) ==
    line # <<>> /\ ~IsItemLine(line) /\ ~SKIP_RE(line) /\ ~SECTION_RE(line)

\* The last line before line i that is an item or a boundary, 0 if none
LastBreak(i) ==
    LET B == { s \in 1..(i - 1) :
                 IsItemLine(cufLines[s]) \/ IsBoundaryLine(cufLines[s]) }
    IN  IF B = {} THEN 0 ELSE CHOOSE s \in B : \A r \in B : r <= s

\* The description lines after line s and before line i, in order; blank
\* lines between them do not count
RECURSIVE RunBetween(_, _)
RunBetween(s, i) ==
    IF s + 1 >= i THEN <<>>
    ELSE IF IsDescriptionLine(cufLines[i - 1])
    THEN Append(RunBetween(s, i - 1), Join(cufLines[i - 1]))
    ELSE RunBetween(s, i - 1)

\* C11: every item of parseCUF has a description that is not empty after
\* trimming, also the item of a data-only line with nothing buffered before it.
C11_NoEmptyDescription ==
    \A k \in 1..Len(cufItems) : Trim(cufItems[k].description) # <<>>

\* The item k carries the code, the quantity and the efrValue printed on the
\* line that pushed it
ItemIsOfLine(k) ==
    LET line == cufLines[itemLine[k]]
        n    == Len(line)
    IN  /\ cufItems[k].efrValue = parsePtDecimal(line[n])
        /\ cufItems[k].code = (IF IsChnmTok(line[n - 1]) /\ n >= 7 /\ IsCodeTok(line[n - 2])
                                  /\ IsDateTok(line[n - 4])
                               THEN line[n - 2] ELSE line[n - 1])

ItemsInLineOrder ==
    /\ Len(itemLine) = Len(cufItems)
    /\ \A k \in 1..Len(cufItems) :
        /\ itemLine[k] \in 1..Len(cufLines)
        /\ ItemIsOfLine(k)
        /\ \A j \in 1..(k - 1) : itemLine[j] < itemLine[k]

ItemsOnlyAppended ==
    \/ cufItems' = cufItems
    \/ /\ Len(cufItems') = Len(cufItems) + 1
       /\ SubSeq(cufItems', 1, Len(cufItems)) = cufItems
       /\ itemLine'[Len(cufItems')] = lineIdx

\* C12: the items of parseCUF stand in the order of the lines that produced
\* them, a line gives at most one item, and items are only ever appended.
C12_PhysicalLineOrder == [](ItemsInLineOrder) /\ [][ItemsOnlyAppended]_vars

\* Two items with different codes, with a line between them that gives no item
C12_Witness ==
    /\ parsePc = "done"
    /\ Len(cufItems) = 2
    /\ cufItems[1].code # cufItems[2].code
    /\ itemLine[2] > itemLine[1] + 1

\* C13: a run of description lines followed by a data-only line gives exactly
\* one item, at the data-only line, whose description is the lines of the run
\* joined by single spaces (blank lines inside the run do not count).
C13_RunStitchedIntoOneItem ==
    parsePc = "done" =>
        \A i \in 1..Len(cufLines) :
            LET run == RunBetween(LastBreak(i), i)
            IN  (IsDataOnlyLine(cufLines[i]) /\ run # <<>>) =>
                    /\ \E k \in 1..Len(cufItems) :
                        /\ itemLine[k] = i
                        /\ cufItems[k].description = Join(run)
                        /\ \A j \in 1..Len(cufItems) : itemLine[j] = i => j = k
                    /\ \A j \in 1..Len(cufItems) :
                        itemLine[j] > LastBreak(i) => itemLine[j] >= i

\* A run of two description lines stitched into one item
C13_Witness ==
    /\ parsePc = "done"
    /\ \E k \in 1..Len(cufItems) :
        /\ IsDataOnlyLine(cufLines[itemLine[k]])
        /\ cufItems[k].description = TokWord1 \o <<" ">> \o TokWord2

\* C15: no item holds a value that is not a number: a line whose numeric token
\* is no well-formed number gives no item.
C15_NoNaNInItems ==
    \A k \in 1..Len(cufItems) :
        /\ ~cufItems[k].qty.nan
        /\ ~cufItems[k].unitValue.nan
        /\ ~cufItems[k].efrValue.nan
        /\ ~cufItems[k].clientValue.nan

\* C16: every item has a quantity above zero (so unitValue is never a division
\* by zero); efrValue and clientValue are never negative.
C16_PositiveQuantity ==
    \A k \in 1..Len(cufItems) :
        /\ ~cufItems[k].qty.nan
        /\ cufItems[k].qty.int > 0 \/ cufItems[k].qty.frac # <<>>
        /\ ~cufItems[k].unitValue.inf
        /\ cufItems[k].efrValue.int >= 0
        /\ cufItems[k].clientValue.int >= 0


----------------------------------------------------------------------------
(* Properties of InvoiceChecker                                             *)

\* The step in which the call in flight runs from its await to its end
CallReturns == callPc = "awaiting" /\ callPc' = "none"

\* Some registered provider detects the text of the file in flight
FileDetected ==
    \E i \in 1..Len(PROVIDERS) : Detect(PROVIDERS[i], TextOf(file.lines))

\* The tokens of the lines a..e, one after the other
RECURSIVE TokensOfLines(_, _, _)
TokensOfLines(lines, a, e) ==
    IF a > e THEN <<>> ELSE lines[a] \o TokensOfLines(lines, a + 1, e)

\* Sub-Total, Total, or a section header
IsSectionBoundary(line) ==
    \/ HasPrefix(Join(line), <<"S", "u", "b", "-", "T", "o", "t", "a", "l">>)
    \/ HasPrefix(Join(line), <<"T", "o", "t", "a", "l">>)
    \/ SECTION_RE(line)

\* Item k of the results was read from the lines span[1]..span[2]: its
\* description is what stands there between the code and the numbers
ReadFrom(lines, it, span) ==
    LET toks == TokensOfLines(lines, span[1], span[2])
        n    == Len(toks)
    IN  /\ 1 <= span[1] /\ span[1] <= span[2] /\ span[2] <= Len(lines)
        /\ n >= 7
        /\ it.code = toks[2]
        /\ it.description =
             Join(SubSeq(toks, 3, IF LINE_WITH_CHNM_RE(toks) THEN n - 5 ELSE n - 4))

\* C14: a pending item that meets Sub-Total, Total or a section header before
\* its numbers is dropped: no item of the results is read from lines that
\* reach across such a boundary.
C14_BoundaryDropsPending ==
    [][(CallReturns /\ state'.phase = "results") =>
          LET r == parseCUF(file.lines)
          IN  /\ Len(r.items) = Len(state'.items)
              /\ \A k \in 1..Len(r.items) :
                   /\ ReadFrom(file.lines, state'.items[k], r.span[k])
                   /\ \A b \in r.span[k][1]..r.span[k][2] :
                        ~IsSectionBoundary(file.lines[b])]_vars

\* C17: when no provider detects the text, the call ends in the error phase
\* with the unsupported-format message, which lists every provider's label;
\* neither the grammar nor checkItems has run.
C17_UnsupportedFormat ==
    [][(CallReturns /\ file.readable /\ ~FileDetected) =>
          /\ state'.phase = "error"
          /\ state'.message[1]
               = "Formato de fatura n~ao reconhecido. Prestadores suportados: "
          /\ \A i \in 1..Len(PROVIDERS) :
               \E k \in 1..Len(state'.message) :
                   state'.message[k] = PROVIDERS[i].label
          /\ state'.items = <<>>
          /\ ~parseCalled' /\ ~checkCalled']_vars

\* A call has ended with the unsupported-format message
C17_Witness ==
    /\ callPc = "none"
    /\ state.phase = "error"
    /\ Len(state.message) = 3 /\ state.message[2] = "CUF"
    /\ ~parseCalled

\* C18: when a provider is detected and its grammar gives no item, the call
\* ends in the error phase with a message that names the provider and is not
\* the unsupported-format message, without running checkItems; the results
\* phase never holds an empty list.
C18_NoItemsIsAnError ==
    /\ [](state.phase = "results" => state.items # <<>>)
    /\ [][(CallReturns /\ file.readable /\ FileDetected
             /\ parseCUF(file.lines).items = <<>>) =>
            /\ state'.phase = "error"
            /\ state'.message # UnsupportedMessage
            /\ state'.message[1] = "Fatura "
            /\ state'.message[2] = detectProvider(TextOf(file.lines)).label
            /\ parseCalled' /\ ~checkCalled']_vars

\* A call has ended with the grammar run and no item found
C18_Witness ==
    /\ callPc = "none"
    /\ state.phase = "error"
    /\ parseCalled /\ ~checkCalled

\* The sum of copayDiff over the items with index in S
RECURSIVE CopayDiffOver(_, _)
CopayDiffOver(its, S) ==
    IF S = {} THEN 0
    ELSE LET k == CHOOSE x \in S : TRUE
         IN  its[k].copayDiff + CopayDiffOver(its, S \ { k })

WithStatus(its, sts) == { k \in 1..Len(its) : its[k].status \in sts }

\* C19: the summary of the results counts every item once, as ok (status ok
\* or variable), diff or not_found, and its overcharge is the sum of copayDiff
\* over the items with status diff.
C19_SummaryPartition ==
    state.phase = "results" =>
        LET its == state.items
            s   == Summary(its)
        IN  /\ s.total = Len(its)
            /\ s.ok = Cardinality(WithStatus(its, { "ok", "variable" }))
            /\ s.diff = Cardinality(WithStatus(its, { "diff" }))
            /\ s.notFound = Cardinality(WithStatus(its, { "not_found" }))
            /\ s.ok + s.diff + s.notFound = s.total
            /\ s.overcharge = CopayDiffOver(its, WithStatus(its, { "diff" }))

\* Results with a variable-price item, an item that differs and an unknown code
C19_Witness ==
    /\ state.phase = "results"
    /\ WithStatus(state.items, { "variable" }) # {}
    /\ WithStatus(state.items, { "diff" }) # {}
    /\ WithStatus(state.items, { "not_found" }) # {}
    /\ CopayDiffOver(state.items, WithStatus(state.items, { "diff" })) = 1000


----------------------------------------------------------------------------
(* Further properties of reconstructLines, parseCUF and checkItems          *)

\* The rounded y of fragment i of the stream
RoundedY(i) == MathRound(items[i].transform5)

\* The number of the line that fragment i is put on: the count of line breaks
\* up to fragment i
LineOfFragment(i) ==
    1 + Cardinality({ j \in 2..i : Abs(RoundedY(j) - RoundedY(j - 1)) > YTolerance })

\* C21: a fragment within 2 units of a line that exists already joins that
\* line, whatever came between them in the stream; a line is started only by a
\* fragment whose rounded y no line has yet, so there are no more lines than
\* distinct rounded y values (y = 100, 50, 100 gives two lines).
C21_BucketsByY ==
    linesPc = "done" =>
        Len(lineTexts) <= Cardinality({ RoundedY(i) : i \in 1..Len(items) })

\* C30: two fragments on the same output line have rounded y values that
\* differ by at most 2, also at the two ends of a chain of small steps.
C30_LineWithinTolerance ==
    linesPc = "done" =>
        /\ items # <<>> => Len(lineTexts) = LineOfFragment(Len(items))
        /\ \A i, j \in 1..Len(items) :
             LineOfFragment(i) = LineOfFragment(j) =>
                 Abs(RoundedY(i) - RoundedY(j)) <= YTolerance

\* The line has the drug column: a token of 5 or more digits between the code
\* and the last token
HasChnmColumn(line) ==
    LET n == Len(line)
    IN  /\ n >= 7
        /\ IsChnmTok(line[n - 1])
        /\ IsCodeTok(line[n - 2])
        /\ IsDateTok(line[n - 4])

\* C22: for a line with the drug column, full or data-only, the item's code is
\* the token before the CHNM token and its efrValue is the last token; the
\* CHNM token is neither the code nor an amount.
C22_ChnmTakesPrecedence ==
    \A k \in 1..Len(cufItems) :
        LET line == cufLines[itemLine[k]]
            n    == Len(line)
        IN  HasChnmColumn(line) =>
              /\ cufItems[k].code = line[n - 2]
              /\ cufItems[k].code # line[n - 1]
              /\ cufItems[k].efrValue = parsePtDecimal(line[n])
              /\ cufItems[k].clientValue = parsePtDecimal(line[n - 5])
              /\ cufItems[k].date = line[n - 4]

\* Items of a full line and of a data-only line, both with the drug column
C22_Witness ==
    /\ parsePc = "done"
    /\ \E j, k \in 1..Len(cufItems) :
        /\ Len(cufLines[itemLine[j]]) = 7
        /\ Len(cufLines[itemLine[k]]) = 8
        /\ HasChnmColumn(cufLines[itemLine[j]])
        /\ HasChnmColumn(cufLines[itemLine[k]])
        /\ cufItems[j].code = TokCode2
        /\ cufItems[k].code = TokCode2

\* C23: a line that begins with a skip keyword never gives an item, also when
\* the rest of it has the shape of an item record.
C23_SkipLinesGiveNoItem ==
    \A k \in 1..Len(cufItems) : ~SKIP_RE(cufLines[itemLine[k]])

\* Rounding to the cent, halves away from zero
RoundHalfAway(m) ==
    IF m >= 0 THEN ((m + 5) \div 10) * 10 ELSE -(((-m) + 5) \div 10) * 10

\* C24: adseDiff and copayDiff are the exact differences rounded to the cent,
\* halves away from zero: +0.005 gives +0.01 and -0.005 gives -0.01.
C24_RoundHalfAwayFromZero ==
    checkPc = "done" =>
        \A i \in 1..Len(checkedItems) :
            checkedItems[i].status = "diff" =>
                /\ checkedItems[i].adseDiff
                     = RoundHalfAway(invoiceItems[i].efrValue
                                       - checkedItems[i].expectedAdse)
                /\ checkedItems[i].copayDiff
                     = RoundHalfAway(invoiceItems[i].clientValue
                                       - checkedItems[i].expectedCopay)

\* C25: adseDiff and copayDiff are present exactly for status diff,
\* expectedAdse and expectedCopay exactly for ok and diff, and the seven
\* fields of the input item are copied in every status.
C25_FieldsByStatus ==
    checkPc = "done" =>
        \A i \in 1..Len(checkedItems) :
            LET c == checkedItems[i]
            IN  /\ c.status \in { "ok", "diff", "variable", "not_found" }
                /\ ("adseDiff" \in DOMAIN c) <=> (c.status = "diff")
                /\ ("copayDiff" \in DOMAIN c) <=> (c.status = "diff")
                /\ ("expectedAdse" \in DOMAIN c) <=> (c.status \in { "ok", "diff" })
                /\ ("expectedCopay" \in DOMAIN c) <=> (c.status \in { "ok", "diff" })
                /\ \A f \in ItemFields : c[f] = invoiceItems[i][f]

\* An exact match beside a variable-price item
C25_Witness ==
    /\ checkPc = "done"
    /\ Len(checkedItems) = 2
    /\ checkedItems[1].status = "ok"
    /\ invoiceItems[1].efrValue = checkedItems[1].expectedAdse
    /\ invoiceItems[1].clientValue = checkedItems[1].expectedCopay
    /\ checkedItems[2].status = "variable"


----------------------------------------------------------------------------
(* Properties of SearchBar and TableVersionProvider                         *)

\* C26: once the clear button has been pressed, and until the input changes
\* again, the last report to onResults is the empty list for the empty query:
\* no timer that was pending at the clear delivers its search.
C26_NoReportAfterClear ==
    clearedLast => reported = [results |-> <<>>, query |-> <<>>]

\* No fetch is in flight, neither of the mount effect nor of setVersion
AllSettled == loadPc \in { "done", "failed" } /\ fetches = <<>>

\* C27: once every fetch has settled, currentVersion and the data are those of
\* the most recent setVersion call (whose fetch, if it made one, resolved),
\* also when an earlier call's fetch resolved after it.
C27_LastSetVersionWins ==
    (AllSettled /\ loadPc = "done" /\ lastSet # "" /\ ~lastSetFailed) =>
        /\ currentVersion = lastSet
        /\ data = VersionData(lastSet)

\* C28: when loading is false and currentVersion is set, the data are the
\* data of currentVersion.
C28_DataOfCurrentVersion ==
    (~loading /\ currentVersion # "") => data = VersionData(currentVersion)

\* C29: loading is true whenever a fetch is in flight.
C29_LoadingWhileFetching ==
    (loadPc \in { "index", "data" } \/ fetches # <<>>) => loading

----------------------------------------------------------------------------
====
